---------------------------- MODULE Spec2Model ----------------------------
(***************************************************************************)
(* A model of parse_gedcom.py: the line lexer (lex), the record path       *)
(* lookup (Record.GetFields), the person-graph builder (parse) and the     *)
(* relationship engine (get_ancestors, find_most_recent,                   *)
(* get_ancestor_lines, find_relationship).                                 *)
(*                                                                         *)
(* Python strings are sequences of one-character strings, so that          *)
(* str.split, int(), str.startswith and str.join are modelled by what they *)
(* do.  Python's None is the value None below.  A Record object of lex is  *)
(* a cell of a heap (lex mutates sub_recs through the references held in   *)
(* curr_for); a Record handed to GetFields or parse is the tree read from  *)
(* that heap.  A Person object is identified by the key of the people      *)
(* dictionary it is stored under.                                          *)
(***************************************************************************)
EXTENDS Integers, Sequences, FiniteSets, TLC

VARIABLES
    \* ---- lex ----
    ged_file,      \* the input: a sequence of lines
    line_no,       \* number of lines the for loop has consumed
    heap,          \* Record objects created so far; heap[0] is root
    curr_for,      \* sequence of references into heap
    lex_pc,        \* "idle" | "loop" | "done" | "error"
    lex_ret,       \* the returned record list, None before the return
    \* ---- Record.GetFields ----
    gf_rec,        \* the record GetFields is called on
    gf_fields,     \* its argument tuple
    gf_pc,         \* "idle" | "call" | "done" | "error"
    gf_ret,        \* its return value
    \* ---- parse and the relationship engine ----
    records,       \* the record list handed to parse
    people,        \* the dictionary parse returns
    pc,            \* "idle" | "start" | "parsed" | "error"
    call,          \* the query in progress or last made: <<name, args...>>
    ret,           \* its outcome: [status |-> ..., value |-> ...]
    todo,          \* the deque of get_ancestor_lines
    ancestor_lines,\* the defaultdict of get_ancestor_lines
    iters          \* loop iterations get_ancestor_lines has made

lexVars   == <<ged_file, line_no, heap, curr_for, lex_pc, lex_ret>>
gfVars    == <<gf_rec, gf_fields, gf_pc, gf_ret>>
graphVars == <<records, people, pc, call, ret, todo, ancestor_lines, iters>>
vars      == <<ged_file, line_no, heap, curr_for, lex_pc, lex_ret,
               gf_rec, gf_fields, gf_pc, gf_ret,
               records, people, pc, call, ret, todo, ancestor_lines, iters>>

-----------------------------------------------------------------------------
(* Python values *)

None == <<"None">>

Range(s) == {s[i] : i \in 1..Len(s)}

\* The number of positions of s holding x (list.count).
Count(s, x) == Cardinality({i \in 1..Len(s) : s[i] = x})

\* s[i] for a Python index i: a negative index counts from the end, an index
\* outside the list raises IndexError.
PyIndex(s, i) ==
    LET j == IF i < 0 THEN i + Len(s) ELSE i
    IN  IF j < 0 \/ j >= Len(s)
          THEN [ok |-> FALSE, val |-> None]
          ELSE [ok |-> TRUE, val |-> s[j + 1]]

\* s[i:] for a Python slice start i (clamped, never an error).
PySliceStart(s, i) ==
    LET j == IF i < 0 THEN i + Len(s) ELSE i
    IN  IF j < 0 THEN 0 ELSE IF j > Len(s) THEN Len(s) ELSE j

\* The list after  s[i:] = new .
PySetSliceFrom(s, i, new) == SubSeq(s, 1, PySliceStart(s, i)) \o new

\* The list s[i:].
PySliceFrom(s, i) == SubSeq(s, PySliceStart(s, i) + 1, Len(s))

\* The characters str.split() separates on (byte strings): space, \t, \n,
\* \r, \x0b (written as the character itself) and \x0c.
Whitespace == {" ", "\t", "\n", "\r", "", "\f"}

\* str.split(): the maximal runs of non-whitespace characters, in order.
RECURSIVE SplitFrom(_, _, _, _)
SplitFrom(line, i, cur, acc) ==
    IF i > Len(line)
      THEN IF cur = <<>> THEN acc ELSE Append(acc, cur)
      ELSE IF line[i] \in Whitespace
        THEN SplitFrom(line, i + 1, <<>>,
                       IF cur = <<>> THEN acc ELSE Append(acc, cur))
        ELSE SplitFrom(line, i + 1, Append(cur, line[i]), acc)

Split(line) == SplitFrom(line, 1, <<>>, <<>>)

\* sep.join(toks)
RECURSIVE Join(_, _)
Join(sep, toks) ==
    IF toks = <<>> THEN <<>>
    ELSE IF Len(toks) = 1 THEN toks[1]
    ELSE toks[1] \o sep \o Join(sep, Tail(toks))

DigitChars == <<"0", "1", "2", "3", "4", "5", "6", "7", "8", "9">>

IsDigit(c) == \E d \in 1..Len(DigitChars) : DigitChars[d] = c

DigitVal(c) == (CHOOSE d \in 1..Len(DigitChars) : DigitChars[d] = c) - 1

RECURSIVE DigitsVal(_)
DigitsVal(s) ==
    IF s = <<>> THEN 0
    ELSE 10 * DigitsVal(SubSeq(s, 1, Len(s) - 1)) + DigitVal(s[Len(s)])

\* int(tok) for a token without whitespace: an optional sign and one or
\* more decimal digits; anything else raises ValueError.
PyInt(tok) ==
    LET signed == tok # <<>> /\ tok[1] \in {"-", "+"}
        digits == IF signed THEN Tail(tok) ELSE tok
    IN  IF digits = <<>> \/ \E i \in 1..Len(digits) : ~IsDigit(digits[i])
          THEN [ok |-> FALSE, val |-> 0]
          ELSE [ok |-> TRUE,
                val |-> IF signed /\ tok[1] = "-"
                          THEN 0 - DigitsVal(digits) ELSE DigitsVal(digits)]

\* tok.startswith("@")
StartsWithAt(tok) == tok # <<>> /\ tok[1] = "@"

\* The strings the program compares record types with.
INDI == <<"I", "N", "D", "I">>
FAM  == <<"F", "A", "M">>
HUSB == <<"H", "U", "S", "B">>
WIFE == <<"W", "I", "F", "E">>
CHIL == <<"C", "H", "I", "L">>

\* Other strings of the inputs.
NAME == <<"N", "A", "M", "E">>
BIRT == <<"B", "I", "R", "T">>
DEAT == <<"D", "E", "A", "T">>
DATE == <<"D", "A", "T", "E">>
PLAC == <<"P", "L", "A", "C">>
MARR == <<"M", "A", "R", "R">>

Return(v) == [status |-> "ok", value |-> v]
Raise(e)  == [status |-> "raise", value |-> e]

\* No query made yet, and no outcome.
NoCall   == [fn |-> "none", args |-> <<>>]
NoResult == [status |-> "none", value |-> None]

-----------------------------------------------------------------------------
(* Record *)

\* Record.__init__
Record(rec_id, rec_type, data) ==
    [rec_id |-> rec_id, rec_type |-> rec_type, data |-> data, sub_recs |-> <<>>]

\* The tree below heap cell r: the Record object as later code reads it.
RECURSIVE Tree(_, _)
Tree(hp, r) ==
    [rec_id   |-> hp[r].rec_id,
     rec_type |-> hp[r].rec_type,
     data     |-> hp[r].data,
     sub_recs |-> [i \in 1..Len(hp[r].sub_recs) |-> Tree(hp, hp[r].sub_recs[i])]]

-----------------------------------------------------------------------------
(* lex *)

\* The state of lex before its loop: root and the chain holding it.
LexStart == [heap |-> (0 :> Record(None, None, None)), curr_for |-> <<0>>]

\* One iteration of the for loop of lex on a line: the new heap and chain,
\* or the exception that ends lex.  skip is TRUE for a blank line.
LexLineNoTruncate(line, hp, cf) ==
    LET fields == Split(line)
        lv     == PyInt(fields[1])
        level  == lv.val
        withId == StartsWithAt(fields[2])
        this   == Cardinality(DOMAIN hp)
        parent == PyIndex(cf, level)
        rec    == IF withId
                    THEN Record(fields[2], fields[3],
                                Join(<<" ">>, PySliceFrom(fields, 3)))
                    ELSE Record(None, fields[2],
                                Join(<<" ">>, PySliceFrom(fields, 2)))
        fail(e) == [ok |-> FALSE, skip |-> FALSE, err |-> e,
                    heap |-> hp, curr_for |-> cf]
    IN  IF fields = <<>>
          THEN [ok |-> TRUE, skip |-> TRUE, err |-> None,
                heap |-> hp, curr_for |-> cf]
        ELSE IF ~lv.ok THEN fail("ValueError")
        ELSE IF Len(fields) < 2 THEN fail("IndexError")
        ELSE IF withId /\ Len(fields) < 3 THEN fail("IndexError")
        ELSE IF ~parent.ok THEN fail("IndexError")
        ELSE [ok |-> TRUE, skip |-> FALSE, err |-> None,
              heap |-> [hp EXCEPT ![parent.val].sub_recs = Append(@, this)]
                         @@ (this :> rec),
              curr_for |-> Append(cf, this)]

LexLineClampLevel(line, hp, cf) ==
    LET fields == Split(line)
        lv     == PyInt(fields[1])
        level  == IF lv.val >= Len(cf) THEN Len(cf) - 1 ELSE lv.val
        withId == StartsWithAt(fields[2])
        this   == Cardinality(DOMAIN hp)
        parent == PyIndex(cf, level)
        rec    == IF withId
                    THEN Record(fields[2], fields[3],
                                Join(<<" ">>, PySliceFrom(fields, 3)))
                    ELSE Record(None, fields[2],
                                Join(<<" ">>, PySliceFrom(fields, 2)))
        fail(e) == [ok |-> FALSE, skip |-> FALSE, err |-> e,
                    heap |-> hp, curr_for |-> cf]
    IN  IF fields = <<>>
          THEN [ok |-> TRUE, skip |-> TRUE, err |-> None,
                heap |-> hp, curr_for |-> cf]
        ELSE IF ~lv.ok THEN fail("ValueError")
        ELSE IF Len(fields) < 2 THEN fail("IndexError")
        ELSE IF withId /\ Len(fields) < 3 THEN fail("IndexError")
        ELSE IF ~parent.ok THEN fail("IndexError")
        ELSE [ok |-> TRUE, skip |-> FALSE, err |-> None,
              heap |-> [hp EXCEPT ![parent.val].sub_recs = Append(@, this)]
                         @@ (this :> rec),
              curr_for |-> PySetSliceFrom(cf, level + 1, <<this>>)]

LexLine(line, hp, cf) ==
    LET fields == Split(line)
        lv     == PyInt(fields[1])
        level  == lv.val
        withId == StartsWithAt(fields[2])
        this   == Cardinality(DOMAIN hp)
        parent == PyIndex(cf, level)
        rec    == IF withId
                    THEN Record(fields[2], fields[3],
                                Join(<<" ">>, PySliceFrom(fields, 3)))
                    ELSE Record(None, fields[2],
                                Join(<<" ">>, PySliceFrom(fields, 2)))
        fail(e) == [ok |-> FALSE, skip |-> FALSE, err |-> e,
                    heap |-> hp, curr_for |-> cf]
    IN  IF fields = <<>>
          THEN [ok |-> TRUE, skip |-> TRUE, err |-> None,
                heap |-> hp, curr_for |-> cf]
        ELSE IF ~lv.ok THEN fail("ValueError")
        ELSE IF Len(fields) < 2 THEN fail("IndexError")
        ELSE IF withId /\ Len(fields) < 3 THEN fail("IndexError")
        ELSE IF ~parent.ok THEN fail("IndexError")
        ELSE [ok |-> TRUE, skip |-> FALSE, err |-> None,
              heap |-> [hp EXCEPT ![parent.val].sub_recs = Append(@, this)]
                         @@ (this :> rec),
              curr_for |-> PySetSliceFrom(cf, level + 1, <<this>>)]

\* The lines of the lexer's inputs.
Sp == <<" ">>
IdTok == <<"@", "I", "1", "@">>
LevelToks == {<<"0">>, <<"1">>}

LexLines ==
    {<<>>, <<" ", "\r", "\n">>}
    \cup {lv : lv \in LevelToks}
    \cup {lv \o Sp \o NAME \o <<"\t", " ", "J", "\f", "D", "", "\n">> : lv \in LevelToks}
    \cup {lv \o Sp \o IdTok \o Sp \o INDI \o <<"\r", "\n">> : lv \in LevelToks}
    \cup {lv \o Sp \o IdTok : lv \in LevelToks}
    \cup {<<"2">> \o Sp \o DATE \o <<" ", "9">>,
          <<"X">> \o Sp \o NAME,
          <<"-", "1">> \o Sp \o NAME}

MaxLines == 3

LexInit ==
    /\ ged_file \in UNION {[1..n -> LexLines] : n \in 0..MaxLines}
    /\ line_no = 0
    /\ heap = LexStart.heap
    /\ curr_for = LexStart.curr_for
    /\ lex_pc = "loop"
    /\ lex_ret = None

\* The body of "for line in ged_file" for the next line.
LexStep ==
    /\ lex_pc = "loop"
    /\ line_no < Len(ged_file)
    /\ LET r == LexLine(ged_file[line_no + 1], heap, curr_for)
       IN  /\ heap' = r.heap
           /\ curr_for' = r.curr_for
           /\ lex_pc' = IF r.ok THEN "loop" ELSE "error"
    /\ line_no' = line_no + 1
    /\ UNCHANGED <<ged_file, lex_ret>>

\* return root.sub_recs
LexReturn ==
    /\ lex_pc = "loop"
    /\ line_no = Len(ged_file)
    /\ lex_pc' = "done"
    /\ lex_ret' = Tree(heap, 0).sub_recs
    /\ UNCHANGED <<ged_file, line_no, heap, curr_for>>


\* The other components at rest.
LexIdle ==
    /\ ged_file = <<>>
    /\ line_no = 0
    /\ heap = LexStart.heap
    /\ curr_for = LexStart.curr_for
    /\ lex_pc = "idle"
    /\ lex_ret = None

GfIdle ==
    /\ gf_rec = None
    /\ gf_fields = <<>>
    /\ gf_pc = "idle"
    /\ gf_ret = None

GraphIdle ==
    /\ records = <<>>
    /\ people = <<>>
    /\ pc = "idle"
    /\ call = NoCall
    /\ ret = NoResult
    /\ todo = <<>>
    /\ ancestor_lines = <<>>
    /\ iters = 0

InitLex == LexInit /\ GfIdle /\ GraphIdle

LexNext ==
    \/ LexStep /\ UNCHANGED <<gfVars, graphVars>>
    \/ LexReturn /\ UNCHANGED <<gfVars, graphVars>>

SpecLex == InitLex /\ [][LexNext]_vars

-----------------------------------------------------------------------------
(* What the lexer's contract says of an input, read off the lines alone *)

\* The positions of the non-blank lines, in order.
NonBlank(file) ==
    LET RECURSIVE From(_)
        From(i) == IF i > Len(file) THEN <<>>
                   ELSE IF Split(file[i]) = <<>> THEN From(i + 1)
                   ELSE <<i>> \o From(i + 1)
    IN  From(1)

\* level tag data...   or   level id type data...
Tokenizes(line) ==
    LET f == Split(line)
    IN  /\ Len(f) >= 2
        /\ PyInt(f[1]).ok
        /\ PyInt(f[1]).val >= 0
        /\ StartsWithAt(f[2]) => Len(f) >= 3

LineLevel(line) == PyInt(Split(line)[1]).val

WellFormed(file) ==
    LET nb == NonBlank(file)
    IN  /\ \A k \in 1..Len(nb) : Tokenizes(file[nb[k]])
        /\ nb # <<>> => LineLevel(file[nb[1]]) = 0
        /\ \A k \in 2..Len(nb) :
              LineLevel(file[nb[k]]) <= LineLevel(file[nb[k - 1]]) + 1

\* The k-th non-blank line's parent: 0 for the top level, otherwise the most
\* recent earlier non-blank line one level up.
ExpectedParent(file, k) ==
    LET nb == NonBlank(file)
        lvl(j) == LineLevel(file[nb[j]])
    IN  IF lvl(k) = 0 THEN 0
        ELSE CHOOSE j \in 1..(k - 1) :
                /\ lvl(j) = lvl(k) - 1
                /\ \A i \in (j + 1)..(k - 1) : lvl(i) # lvl(k) - 1

\* The members of a set of numbers in increasing order.
RECURSIVE Ascending(_)
Ascending(S) ==
    IF S = {} THEN <<>>
    ELSE LET m == CHOOSE x \in S : \A y \in S : x <= y
         IN  <<m>> \o Ascending(S \ {m})

ExpectedSubs(file, n) ==
    Ascending({k \in 1..Len(NonBlank(file)) : ExpectedParent(file, k) = n})

\* The record the contract has the k-th non-blank line produce, with its
\* sub-records.
RECURSIVE ExpectedTree(_, _)
ExpectedTree(file, k) ==
    LET f    == Split(file[NonBlank(file)[k]])
        subs == ExpectedSubs(file, k)
    IN  [rec_id   |-> IF StartsWithAt(f[2]) THEN f[2] ELSE None,
         rec_type |-> IF StartsWithAt(f[2]) THEN f[3] ELSE f[2],
         data     |-> Join(<<" ">>, IF StartsWithAt(f[2])
                                      THEN SubSeq(f, 4, Len(f))
                                      ELSE SubSeq(f, 3, Len(f))),
         sub_recs |-> [i \in 1..Len(subs) |-> ExpectedTree(file, subs[i])]]

ExpectedTop(file) ==
    LET subs == ExpectedSubs(file, 0)
    IN  [i \in 1..Len(subs) |-> ExpectedTree(file, subs[i])]

\* The well-formedness the claim spells out: every non-blank line has a level
\* and something after it, the levels are non-negative integers, the first is
\* 0 and none is more than one deeper than the level of the line before.
WellFormedLevels(file) ==
    LET nb == NonBlank(file)
    IN  /\ \A k \in 1..Len(nb) :
              /\ Len(Split(file[nb[k]])) >= 2
              /\ PyInt(Split(file[nb[k]])[1]).ok
              /\ LineLevel(file[nb[k]]) >= 0
        /\ nb # <<>> => LineLevel(file[nb[1]]) = 0
        /\ \A k \in 2..Len(nb) :
              LineLevel(file[nb[k]]) <= LineLevel(file[nb[k - 1]]) + 1

\* C7 as stated: on every input whose levels are well-formed lex returns the
\* hierarchy the levels describe, one record per non-blank line.
C7_AsStated ==
    (lex_pc \in {"done", "error"} /\ WellFormedLevels(ged_file)) =>
        /\ lex_pc = "done"
        /\ lex_ret = ExpectedTop(ged_file)

\* C7, amended: on a well-formed input whose non-blank lines also tokenize
\* (a line whose second token starts with @ has a third, its type) lex does
\* not raise and returns the hierarchy the levels describe: a level-0 line is
\* a top-level record, a level-L line is a sub-record of the most recent
\* earlier line at level L-1, order is input order, a blank line gives no
\* record and every other line gives exactly one record, placed once.
C7_LexRebuildsHierarchy ==
    (lex_pc \in {"done", "error"} /\ WellFormed(ged_file)) =>
        /\ lex_pc = "done"
        /\ lex_ret = ExpectedTop(ged_file)
        /\ DOMAIN heap = 0..Len(NonBlank(ged_file))
        /\ \A n \in DOMAIN heap : heap[n].sub_recs = ExpectedSubs(ged_file, n)

\* A well-formed input in which a second top-level record gets the
\* sub-record that follows it.
C7_Witness ==
    /\ lex_pc = "done"
    /\ WellFormed(ged_file)
    /\ Len(lex_ret) = 2
    /\ lex_ret[1].sub_recs = <<>>
    /\ Len(lex_ret[2].sub_recs) = 1

\* An input with a blank line that ends in \r\n, in which an INDI line that
\* ends in \r\n gets a NAME sub-record whose data was separated by \t, \x0c
\* and \x0b.
C7_WitnessDeep ==
    /\ lex_pc = "done"
    /\ WellFormed(ged_file)
    /\ \E i \in 1..Len(ged_file) : ged_file[i] = <<" ", "\r", "\n">>
    /\ \E i \in 1..Len(lex_ret) :
          /\ lex_ret[i].rec_type = INDI
          /\ lex_ret[i].data = <<>>
          /\ lex_ret[i].sub_recs # <<>>
          /\ lex_ret[i].sub_recs[1].rec_type = NAME
          /\ lex_ret[i].sub_recs[1].data = <<"J", " ", "D">>

\* The next line is one the contract calls malformed: fewer than two tokens,
\* or a level more than one deeper than the deepest record on the chain
\* (curr_for holds root, at depth -1, and one record per depth after it).
MalformedNext ==
    /\ lex_pc = "loop"
    /\ line_no < Len(ged_file)
    /\ LET f == Split(ged_file[line_no + 1])
       IN  /\ f # <<>>
           /\ \/ Len(f) < 2
              \/ PyInt(f[1]).ok /\ PyInt(f[1]).val > (Len(curr_for) - 2) + 1

\* C8: lex raises on a line with fewer than two tokens and on a level that
\* skips a depth, and once it has raised it returns no record list.
C8_LexFailsOnMalformed ==
    /\ [][MalformedNext => (lex_pc' = "error" /\ lex_ret' = None)]_vars
    /\ [][lex_pc = "error" => (lex_pc' = "error" /\ lex_ret' = None)]_vars

\* lex has raised on a level-2 line that directly follows a level-0 line,
\* with a partly built tree left behind and nothing returned.
C8_Witness ==
    /\ lex_pc = "error"
    /\ lex_ret = None
    /\ line_no = 2
    /\ Len(Split(ged_file[2])) >= 2
    /\ PyInt(Split(ged_file[2])[1]).ok
    /\ PyInt(Split(ged_file[2])[1]).val = 2
    /\ Len(curr_for) = 2
    /\ heap[0].sub_recs # <<>>

-----------------------------------------------------------------------------
(* Record.GetFields *)

\* record.GetFields(*fields): the loop returns at the first sub-record whose
\* type is fields[0], with its data or with what the recursive call returns;
\* a loop that ends without a match falls off the end (None).
RECURSIVE GetFields(_, _)
GetFields(rec, fields) ==
    IF ~(Len(fields) > 0) THEN Raise("AssertionError")
    ELSE LET hits == {i \in 1..Len(rec.sub_recs) :
                         rec.sub_recs[i].rec_type = fields[1]}
         IN  IF hits = {} THEN Return(None)
             ELSE LET record == rec.sub_recs[CHOOSE i \in hits :
                                                \A j \in hits : i <= j]
                  IN  IF Len(fields) = 1 THEN Return(record.data)
                      ELSE GetFields(record, Tail(fields))

\* The records GetFields is tried on: an individual with up to GfMaxSubs
\* event sub-records, each with up to GfMaxDetails detail sub-records.
GfMaxSubs == 2
GfMaxDetails == 1

SeqsUpTo(S, n) == UNION {[1..k -> S] : k \in 0..n}

GfDetails ==
    {[rec_id |-> None, rec_type |-> t, data |-> d, sub_recs |-> <<>>] :
        t \in {DATE, PLAC}, d \in {<<"1", "9", "0", "0">>, <<"1", "8", "5", "0">>}}

GfEvents ==
    {[rec_id |-> None, rec_type |-> t, data |-> <<>>, sub_recs |-> s] :
        t \in {BIRT, DEAT}, s \in SeqsUpTo(GfDetails, GfMaxDetails)}

GfRecords ==
    {[rec_id |-> IdTok, rec_type |-> INDI, data |-> <<>>, sub_recs |-> s] :
        s \in SeqsUpTo(GfEvents, GfMaxSubs)}

GfPaths == {<<>>, <<BIRT>>, <<DEAT>>, <<DATE>>, <<BIRT, DATE>>, <<BIRT, PLAC>>,
            <<DEAT, DATE>>}

GfInit ==
    /\ gf_rec \in GfRecords
    /\ gf_fields \in GfPaths
    /\ gf_pc = "call"
    /\ gf_ret = None

\* The call gf_rec.GetFields(*gf_fields).
GetFieldsCall ==
    /\ gf_pc = "call"
    /\ LET r == GetFields(gf_rec, gf_fields)
       IN  /\ gf_pc' = IF r.status = "ok" THEN "done" ELSE "error"
           /\ gf_ret' = r.value
    /\ UNCHANGED <<gf_rec, gf_fields>>

InitFields == GfInit /\ LexIdle /\ GraphIdle

FieldsNext == GetFieldsCall /\ UNCHANGED <<lexVars, graphVars>>

SpecFields == InitFields /\ [][FieldsNext]_vars

\* The payloads of the records reached from rec by a chain of nested
\* sub-records tagged fields[1], fields[2], ...
RECURSIVE ChainEnds(_, _)
ChainEnds(rec, fields) ==
    LET hits == {i \in 1..Len(rec.sub_recs) : rec.sub_recs[i].rec_type = fields[1]}
    IN  IF Len(fields) = 1
          THEN {rec.sub_recs[i].data : i \in hits}
          ELSE UNION {ChainEnds(rec.sub_recs[i], Tail(fields)) : i \in hits}

\* C10: for a non-empty path GetFields returns the payload at the end of a
\* chain of sub-records matching the path whenever one exists, and None only
\* when no such chain exists.
C10_GetFieldsFindsChain ==
    (gf_pc \in {"done", "error"} /\ gf_fields # <<>>) =>
        /\ gf_pc = "done"
        /\ ChainEnds(gf_rec, gf_fields) # {} => gf_ret \in ChainEnds(gf_rec, gf_fields)
        /\ ChainEnds(gf_rec, gf_fields) = {} => gf_ret = None

\* What the code does instead: the lookup follows the first sub-record
\* of each type and no other.
RECURSIVE FirstChain(_, _)
FirstChain(rec, fields) ==
    LET hits == {i \in 1..Len(rec.sub_recs) : rec.sub_recs[i].rec_type = fields[1]}
        first == rec.sub_recs[CHOOSE i \in hits : \A j \in hits : i <= j]
    IN  IF hits = {} THEN {}
        ELSE IF Len(fields) = 1 THEN {first.data}
        ELSE FirstChain(first, Tail(fields))

GetFieldsFollowsFirstMatch ==
    (gf_pc = "done" /\ gf_fields # <<>>) =>
        /\ FirstChain(gf_rec, gf_fields) # {} => gf_ret \in FirstChain(gf_rec, gf_fields)
        /\ FirstChain(gf_rec, gf_fields) = {} => gf_ret = None

-----------------------------------------------------------------------------
(* parse *)

\* Person.__init__
Person(record) == [record |-> record, parents |-> <<>>, children |-> <<>>]

\* First loop of parse: every INDI record becomes a Person under its rec_id;
\* the assert fails on an id already present.
RECURSIVE CollectPeople(_, _, _)
CollectPeople(recs, i, ppl) ==
    IF i > Len(recs) THEN Return(ppl)
    ELSE IF recs[i].rec_type = INDI
      THEN IF recs[i].rec_id \in DOMAIN ppl
             THEN Raise("AssertionError")
             ELSE CollectPeople(recs, i + 1,
                                ppl @@ (recs[i].rec_id :> Person(recs[i])))
      ELSE CollectPeople(recs, i + 1, ppl)

\* The data of the sub-records whose type is in types, in order.
RECURSIVE SubData(_, _)
SubData(sub_recs, types) ==
    IF sub_recs = <<>> THEN <<>>
    ELSE (IF sub_recs[1].rec_type \in types THEN <<sub_recs[1].data>> ELSE <<>>)
         \o SubData(Tail(sub_recs), types)

\* for parent_id in parents: look the parent up and append both ways.
RECURSIVE LinkParentsOnce(_, _, _, _)
LinkParentsOnce(ppl, child_id, parents, j) ==
    IF j > Len(parents) THEN Return(ppl)
    ELSE IF parents[j] \notin DOMAIN ppl THEN Raise("KeyError")
    ELSE LinkParentsOnce(
            [ppl EXCEPT ![child_id].parents = Append(@, parents[j]),
                        ![parents[j]].children =
                            IF child_id \in Range(@) THEN @ ELSE Append(@, child_id)],
            child_id, parents, j + 1)

RECURSIVE LinkParents(_, _, _, _)
LinkParents(ppl, child_id, parents, j) ==
    IF j > Len(parents) THEN Return(ppl)
    ELSE IF parents[j] \notin DOMAIN ppl THEN Raise("KeyError")
    ELSE LinkParents(
            [ppl EXCEPT ![child_id].parents = Append(@, parents[j]),
                        ![parents[j]].children = Append(@, child_id)],
            child_id, parents, j + 1)

\* for child_id in children: look the child up, then link its parents.
RECURSIVE LinkChildren(_, _, _, _)
LinkChildren(ppl, children, parents, i) ==
    IF i > Len(children) THEN Return(ppl)
    ELSE IF children[i] \notin DOMAIN ppl THEN Raise("KeyError")
    ELSE LET r == LinkParents(ppl, children[i], parents, 1)
         IN  IF r.status = "raise" THEN r
             ELSE LinkChildren(r.value, children, parents, i + 1)

\* Second loop of parse: the FAM records, in order.
RECURSIVE LinkFamilies(_, _, _)
LinkFamilies(recs, i, ppl) ==
    IF i > Len(recs) THEN Return(ppl)
    ELSE IF recs[i].rec_type = FAM
      THEN LET parents  == SubData(recs[i].sub_recs, {HUSB, WIFE})
               children == SubData(recs[i].sub_recs, {CHIL})
               r        == LinkChildren(ppl, children, parents, 1)
           IN  IF r.status = "raise" THEN r
               ELSE LinkFamilies(recs, i + 1, r.value)
      ELSE LinkFamilies(recs, i + 1, ppl)

parse(recs) ==
    LET c == CollectPeople(recs, 1, <<>>)
    IN  IF c.status = "raise" THEN c ELSE LinkFamilies(recs, 1, c.value)

\* people = parse(records)
ParseCall ==
    /\ pc = "start"
    /\ LET r == parse(records)
       IN  /\ pc' = IF r.status = "ok" THEN "parsed" ELSE "error"
           /\ people' = IF r.status = "ok" THEN r.value ELSE <<>>
           /\ ret' = IF r.status = "ok" THEN NoResult ELSE r
    /\ UNCHANGED <<records, call, todo, ancestor_lines, iters>>

\* Person identifiers @I1@, @I2@, ...
Id(i) == <<"@", "I", DigitChars[i + 1], "@">>

IndiRecord(i) == Record(Id(i), INDI, <<>>)

SubRecord(t, d) == Record(None, t, d)

\* The inputs of parse, as a GEDCOM file lists them: each item is a level-0
\* FAM line or a level-1 line below the last FAM line; the INDI records come
\* before or after the families.
FamItems ==
    {<<FAM>>, <<MARR, <<>>>>}
    \cup {<<t, Id(i)>> : t \in {HUSB, WIFE, CHIL}, i \in 1..2}

RECURSIVE FamRecords(_)
FamRecords(items) ==
    IF items = <<>> THEN <<>>
    ELSE LET rest == FamRecords(SubSeq(items, 1, Len(items) - 1))
             last == items[Len(items)]
         IN  IF last = <<FAM>>
               THEN Append(rest, Record(<<"@", "F", "@">>, FAM, <<>>))
               ELSE [rest EXCEPT ![Len(rest)].sub_recs =
                                    Append(@, SubRecord(last[1], last[2]))]

IndiLists ==
    {<<IndiRecord(1), IndiRecord(2)>>,
     <<IndiRecord(1)>>,
     <<IndiRecord(1), IndiRecord(2), IndiRecord(1)>>}

MaxItems == 5

InitParse ==
    /\ LexIdle /\ GfIdle
    /\ \E s \in SeqsUpTo(FamItems, MaxItems) :
         \E ind \in IndiLists : \E indiFirst \in BOOLEAN :
            /\ s # <<>> => s[1] = <<FAM>>
            /\ records = IF indiFirst THEN ind \o FamRecords(s)
                                      ELSE FamRecords(s) \o ind
    /\ people = <<>>
    /\ pc = "start"
    /\ call = NoCall
    /\ ret = NoResult
    /\ todo = <<>>
    /\ ancestor_lines = <<>>
    /\ iters = 0

ParseNext == ParseCall /\ UNCHANGED <<lexVars, gfVars>>

SpecParse == InitParse /\ [][ParseNext]_vars

\* Some FAM record lists p as HUSB or WIFE and c as CHIL.
FamLists(recs, p, c) ==
    \E i \in 1..Len(recs) :
        /\ recs[i].rec_type = FAM
        /\ \E j \in 1..Len(recs[i].sub_recs) :
              /\ recs[i].sub_recs[j].rec_type \in {HUSB, WIFE}
              /\ recs[i].sub_recs[j].data = p
        /\ \E j \in 1..Len(recs[i].sub_recs) :
              /\ recs[i].sub_recs[j].rec_type = CHIL
              /\ recs[i].sub_recs[j].data = c

\* C3: after parse the parent and child links mirror each other, with equal
\* multiplicity, and a link p -> c exists exactly when a FAM record lists p as
\* HUSB or WIFE and c as CHIL.
C3_LinksMirrored ==
    pc = "parsed" =>
        \A p \in DOMAIN people : \A c \in DOMAIN people :
            /\ (p \in Range(people[c].parents)) <=> (c \in Range(people[p].children))
            /\ Count(people[c].parents, p) = Count(people[p].children, c)
            /\ (p \in Range(people[c].parents)) <=> FamLists(records, p, c)

\* parse has linked the same parent to the same child more than once, and
\* another person to nobody.
C3_Witness ==
    /\ pc = "parsed"
    /\ \E p \in DOMAIN people : \E c \in DOMAIN people :
          /\ p # c
          /\ Count(people[c].parents, p) = 2
          /\ Count(people[p].children, c) = 2
          /\ people[p].parents = <<>>

-----------------------------------------------------------------------------
(* The relationship engine *)

\* The interpreter's limit on nested calls (sys.getrecursionlimit(), 1000 by
\* default); any value above the number of persons gives the same results on
\* an acyclic graph.
RecursionLimit == 4

\* get_ancestors(person), called at the given nesting depth.
RECURSIVE get_ancestors(_, _, _)
RECURSIVE AncestorsLoop(_, _, _, _, _)
get_ancestorsDirectOnly(ppl, person, depth) ==
    Return({person} \cup Range(ppl[person].parents))

get_ancestors(ppl, person, depth) ==
    IF depth > RecursionLimit THEN Raise("RuntimeError")
    ELSE AncestorsLoop(ppl, ppl[person].parents, 1, {person}, depth)

\* for parent in person.parents: ancestors.update(get_ancestors(parent))
AncestorsLoop(ppl, parents, i, ancestors, depth) ==
    IF i > Len(parents) THEN Return(ancestors)
    ELSE LET r == get_ancestors(ppl, parents[i], depth + 1)
         IN  IF r.status = "raise" THEN r
             ELSE AncestorsLoop(ppl, parents, i + 1, ancestors \cup r.value, depth)

\* find_most_recent(common)
find_most_recentByParents(ppl, common) ==
    {person \in common : common \cap Range(ppl[person].parents) = {}}

find_most_recent(ppl, common) ==
    {person \in common : common \cap Range(ppl[person].children) = {}}

\* One iteration of the while loop of get_ancestor_lines.
LinesIter(ppl, td, al) ==
    LET person  == td[1][1]
        line    == td[1][2]
        parents == ppl[person].parents
    IN  [todo |-> Tail(td) \o
                    [i \in 1..Len(parents) |-> <<parents[i], Append(line, parents[i])>>],
         ancestor_lines |->
             IF person \in DOMAIN al
               THEN [al EXCEPT ![person] = Append(@, line)]
               ELSE al @@ (person :> <<line>>)]

HasRepeat(line) == \E i \in 1..Len(line) : \E j \in 1..Len(line) : i < j /\ line[i] = line[j]

\* get_ancestor_lines run to its return, for use inside find_relationship.
\* The loop has no exit but an empty deque.  Once a dequeued line holds a
\* person twice, that person lies on a cycle reachable from the start, every
\* visit of it enqueues the next person of the cycle, and the deque can never
\* drain: the call does not return ("diverges").
RECURSIVE RunLines(_, _, _)
RunLines(ppl, td, al) ==
    IF td = <<>> THEN Return(al)
    ELSE IF HasRepeat(td[1][2]) THEN [status |-> "diverges", value |-> None]
    ELSE LET n == LinesIter(ppl, td, al)
         IN  RunLines(ppl, n.todo, n.ancestor_lines)

get_ancestor_lines(ppl, start_person) ==
    RunLines(ppl, <<<<start_person, <<start_person>>>>>>, <<>>)

\* The orders in which a for loop may visit the members of a set.
SetOrders(S) ==
    {o \in [1..Cardinality(S) -> S] : \A i, j \in 1..Cardinality(S) : o[i] = o[j] => i = j}

\* The set find_relationship names mrcas.
RelationshipMrcasAllCommon(ppl, lines1, lines2) ==
    (DOMAIN lines1) \cap (DOMAIN lines2)

RelationshipMrcasFirstOnly(ppl, lines1, lines2) ==
    find_most_recent(ppl, DOMAIN lines1)

RelationshipMrcas(ppl, lines1, lines2) ==
    find_most_recent(ppl, (DOMAIN lines1) \cap (DOMAIN lines2))

\* lines[anc] on a defaultdict(list)
DefaultGet(lines, anc) == IF anc \in DOMAIN lines THEN lines[anc] ELSE <<>>

\* The orders in which the for loop of find_relationship(person1, person2)
\* may visit mrcas (a set); none to choose from when a call before it does
\* not return.
RelationshipOrders(ppl, person1, person2) ==
    LET lines1 == get_ancestor_lines(ppl, person1)
        lines2 == get_ancestor_lines(ppl, person2)
    IN  IF lines1.status # "ok" \/ lines2.status # "ok" THEN {<<>>}
        ELSE SetOrders(RelationshipMrcas(ppl, lines1.value, lines2.value))

\* find_relationship(person1, person2), its for loop visiting mrcas in the
\* given order (a member of RelationshipOrders).
find_relationship(ppl, person1, person2, order) ==
    LET lines1 == get_ancestor_lines(ppl, person1)
        lines2 == get_ancestor_lines(ppl, person2)
    IN  IF lines1.status # "ok" THEN lines1
        ELSE IF lines2.status # "ok" THEN lines2
        ELSE Return([i \in 1..Len(order) |->
                        <<DefaultGet(lines1.value, order[i]),
                          DefaultGet(lines2.value, order[i])>>])

-----------------------------------------------------------------------------
(* The graph specification: parse, then one query on the graph *)

NumPersons == 4
MaxMentions == 6
MaxIters == 7

PersonNos == 1..NumPersons

\* A family as numbers: <<parent, child>> or <<parent, parent, child>>.
FamRecord(f) ==
    [Record(<<"@", "F", "@">>, FAM, <<>>) EXCEPT !.sub_recs =
        IF Len(f) = 2
          THEN <<SubRecord(HUSB, Id(f[1])), SubRecord(CHIL, Id(f[2]))>>
          ELSE <<SubRecord(HUSB, Id(f[1])), SubRecord(WIFE, Id(f[2])),
                 SubRecord(CHIL, Id(f[3]))>>]

RECURSIVE Flatten(_)
Flatten(fs) == IF fs = <<>> THEN <<>> ELSE fs[1] \o Flatten(Tail(fs))

\* Persons are numbered in the order the families first mention them: every
\* input is such an input with its identifiers renamed, and parse and the
\* queries treat identifiers as opaque keys.  After persons 1..m have been
\* mentioned the next mention is one of them or person m + 1.
NextMentions(m) == 1..(IF m < NumPersons THEN m + 1 ELSE NumPersons)

Mentioned(m, p) == IF p > m THEN p ELSE m

\* The families that may follow a list mentioning persons 1..m.
ShapesAfter(m) ==
    UNION {{<<a, c>> : c \in NextMentions(Mentioned(m, a))}
           \cup UNION {{<<a, b, c>> :
                           c \in NextMentions(Mentioned(Mentioned(m, a), b))} :
                       b \in NextMentions(Mentioned(m, a))} :
           a \in NextMentions(m)}

\* The highest person the list of families mentions, 0 for none.
LastMentioned(fs) ==
    LET occ == Flatten(fs)
    IN  IF occ = <<>> THEN 0
        ELSE CHOOSE p \in Range(occ) : \A q \in Range(occ) : q <= p

\* The lists of n families in first-mention order that name persons at most
\* MaxMentions times in all, built one family at a time.
RECURSIVE FamSeqs(_)
FamSeqs(n) ==
    IF n = 0 THEN {<<>>}
    ELSE UNION {{Append(fs, sh) :
                    sh \in {f \in ShapesAfter(LastMentioned(fs)) :
                               Len(Flatten(fs)) + Len(f) <= MaxMentions}} :
                fs \in FamSeqs(n - 1)}

Init ==
    /\ LexIdle /\ GfIdle
    /\ \E n \in 0..(MaxMentions \div 2) :
         \E fs \in FamSeqs(n) :
            records = [i \in PersonNos |-> IndiRecord(i)]
                         \o [i \in 1..n |-> FamRecord(fs[i])]
    /\ people = <<>>
    /\ pc = "start"
    /\ call = NoCall
    /\ ret = NoResult
    /\ todo = <<>>
    /\ ancestor_lines = <<>>
    /\ iters = 0

Fresh == pc = "parsed" /\ call = NoCall

\* get_ancestors(person)
GetAncestorsCall ==
    /\ Fresh
    /\ \E person \in DOMAIN people :
          /\ call' = [fn |-> "get_ancestors", args |-> <<person>>]
          /\ ret' = get_ancestors(people, person, 1)
    /\ UNCHANGED <<records, people, pc, todo, ancestor_lines, iters>>

\* find_most_recent(common)
FindMostRecentCall ==
    /\ Fresh
    /\ \E common \in SUBSET DOMAIN people :
          /\ call' = [fn |-> "find_most_recent", args |-> <<common>>]
          /\ ret' = Return(find_most_recent(people, common))
    /\ UNCHANGED <<records, people, pc, todo, ancestor_lines, iters>>

\* find_relationship(person1, person2) and, beside it, the call with the
\* arguments swapped.
FindRelationshipCall ==
    /\ Fresh
    /\ \E person1 \in DOMAIN people : \E person2 \in DOMAIN people :
         \E o1 \in RelationshipOrders(people, person1, person2) :
         \E o2 \in RelationshipOrders(people, person2, person1) :
            /\ call' = [fn |-> "find_relationship", args |-> <<person1, person2>>]
            /\ ret' = [find_relationship(people, person1, person2, o1) EXCEPT
                          !.value = <<@, find_relationship(people, person2, person1, o2).value>>]
    /\ UNCHANGED <<records, people, pc, todo, ancestor_lines, iters>>

\* get_ancestor_lines(start_person), up to its loop.
LinesStart ==
    /\ Fresh
    /\ \E start_person \in DOMAIN people :
          /\ call' = [fn |-> "get_ancestor_lines", args |-> <<start_person>>]
          /\ todo' = <<<<start_person, <<start_person>>>>>>
    /\ ancestor_lines' = <<>>
    /\ iters' = 0
    /\ ret' = [status |-> "running", value |-> None]
    /\ UNCHANGED <<records, people, pc>>

\* One iteration of "while todo".
LinesStep ==
    /\ call.fn = "get_ancestor_lines"
    /\ ret.status = "running"
    /\ todo # <<>>
    /\ iters < MaxIters
    /\ LET n == LinesIter(people, todo, ancestor_lines)
       IN  /\ todo' = n.todo
           /\ ancestor_lines' = n.ancestor_lines
    /\ iters' = iters + 1
    /\ UNCHANGED <<records, people, pc, call, ret>>

\* return ancestor_lines
LinesReturn ==
    /\ call.fn = "get_ancestor_lines"
    /\ ret.status = "running"
    /\ todo = <<>>
    /\ ret' = Return(ancestor_lines)
    /\ UNCHANGED <<records, people, pc, call, todo, ancestor_lines, iters>>

Next ==
    \/ ParseCall /\ UNCHANGED <<lexVars, gfVars>>
    \/ GetAncestorsCall /\ UNCHANGED <<lexVars, gfVars>>
    \/ FindMostRecentCall /\ UNCHANGED <<lexVars, gfVars>>
    \/ FindRelationshipCall /\ UNCHANGED <<lexVars, gfVars>>
    \/ LinesStart /\ UNCHANGED <<lexVars, gfVars>>
    \/ LinesStep /\ UNCHANGED <<lexVars, gfVars>>
    \/ LinesReturn /\ UNCHANGED <<lexVars, gfVars>>

Spec == Init /\ [][Next]_vars

-----------------------------------------------------------------------------
(* What the claims say of a graph, read off the parents links alone *)

ParentsOf(ppl, S) == UNION {Range(ppl[x].parents) : x \in S}

\* The least set that holds S and the parents of its members.
RECURSIVE UpClosure(_, _)
UpClosure(ppl, S) ==
    LET T == S \cup ParentsOf(ppl, S)
    IN  IF T = S THEN S ELSE UpClosure(ppl, T)

\* p and everybody reachable from p by parents links.
AncestorsOrSelf(ppl, p) == UpClosure(ppl, {p})

\* x is reachable from itself by one or more parents links.
OnCycle(ppl, x) == x \in UpClosure(ppl, Range(ppl[x].parents))

Acyclic(ppl) == \A x \in DOMAIN ppl : ~OnCycle(ppl, x)

\* p is on a cycle or below one.
ReachesCycle(ppl, p) == \E x \in AncestorsOrSelf(ppl, p) : OnCycle(ppl, x)

\* The parent-paths that start at p, in an acyclic graph.
RECURSIVE PathsFrom(_, _)
PathsFrom(ppl, p) ==
    {<<p>>} \cup UNION {{<<p>> \o q : q \in PathsFrom(ppl, x)} :
                          x \in Range(ppl[p].parents)}

\* The parent-paths from p to a.
Paths(ppl, p, a) == {q \in PathsFrom(ppl, p) : q[Len(q)] = a}

NoRepeats(s) == \A i, j \in 1..Len(s) : s[i] = s[j] => i = j

\* C9: on an acyclic graph get_ancestors(p) is p together with everybody
\* reachable from p by parents links, and nobody else.
C9_AncestorsIsClosure ==
    (call.fn = "get_ancestors" /\ Acyclic(people)) =>
        /\ ret.status = "ok"
        /\ call.args[1] \in ret.value
        /\ ret.value = AncestorsOrSelf(people, call.args[1])

\* get_ancestors on a child whose two parents have no recorded parents, and
\* on a person with a grandparent.
C9_Witness ==
    /\ call.fn = "get_ancestors"
    /\ Acyclic(people)
    /\ LET p == call.args[1]
       IN  /\ Len(people[p].parents) = 2
           /\ people[p].parents[1] # people[p].parents[2]
           /\ \A i \in 1..2 : people[people[p].parents[i]].parents = <<>>
           /\ ret.value = {p, people[p].parents[1], people[p].parents[2]}

C9_WitnessGrandparent ==
    /\ call.fn = "get_ancestors"
    /\ Acyclic(people)
    /\ \E x \in ret.value : \E y \in ret.value :
          /\ x \in Range(people[call.args[1]].parents)
          /\ y \in Range(people[x].parents)
          /\ y \notin Range(people[call.args[1]].parents)

\* C4: find_most_recent(S) is the set of the members of S that have no child
\* in S.
C4_MostRecentHaveNoChildInSet ==
    call.fn = "find_most_recent" =>
        LET S == call.args[1]
            childless(x) == \A i \in 1..Len(people[x].children) :
                                people[x].children[i] \notin S
        IN  /\ \A x \in ret.value : x \in S /\ childless(x)
            /\ \A x \in S : childless(x) => x \in ret.value

\* A set with a member that is returned and a member that is dropped for
\* having a child in the set.
C4_Witness ==
    /\ call.fn = "find_most_recent"
    /\ \E x \in call.args[1] : \E y \in call.args[1] :
          /\ x \in ret.value
          /\ y \notin ret.value
          /\ x \in Range(people[y].children)

\* The most recent common ancestors of p1 and p2: ancestors-or-self of both,
\* with no child that is one.
CommonAncestors(ppl, p1, p2) ==
    AncestorsOrSelf(ppl, p1) \cap AncestorsOrSelf(ppl, p2)

MostRecentCommon(ppl, p1, p2) ==
    {m \in CommonAncestors(ppl, p1, p2) :
        \A i \in 1..Len(ppl[m].children) :
            ppl[m].children[i] \notin CommonAncestors(ppl, p1, p2)}

\* C5: on an acyclic graph find_relationship(p1, p2) holds exactly one pair
\* per most recent common ancestor m, made of all the lines from p1 to m and
\* all the lines from p2 to m, neither empty; it is empty when p1 and p2 have
\* no common ancestor.
C5_OnePairPerMrca ==
    (call.fn = "find_relationship" /\ Acyclic(people)) =>
        LET p1  == call.args[1]
            p2  == call.args[2]
            rel == ret.value[1]
            M   == MostRecentCommon(people, p1, p2)
            isPairOf(i, m) ==
                /\ Range(rel[i][1]) = Paths(people, p1, m)
                /\ Range(rel[i][2]) = Paths(people, p2, m)
        IN  /\ ret.status = "ok"
            /\ Len(rel) = Cardinality(M)
            /\ \A m \in M : \E i \in 1..Len(rel) :
                  /\ isPairOf(i, m)
                  /\ \A j \in 1..Len(rel) : isPairOf(j, m) => j = i
            /\ \A i \in 1..Len(rel) : rel[i][1] # <<>> /\ rel[i][2] # <<>>
            /\ CommonAncestors(people, p1, p2) = {} => rel = <<>>

\* The person a pair of a relationship is about: the end of its lines.
PairMrca(pair) == pair[1][1][Len(pair[1][1])]

\* Two persons with two most recent common ancestors (full siblings and their
\* two parents): the relationship holds two pairs, about different persons.
C5_Witness ==
    /\ call.fn = "find_relationship"
    /\ Acyclic(people)
    /\ call.args[1] # call.args[2]
    /\ Cardinality(MostRecentCommon(people, call.args[1], call.args[2])) = 2
    /\ Len(ret.value[1]) = 2
    /\ PairMrca(ret.value[1][1]) # PairMrca(ret.value[1][2])

\* A relationship whose one pair stops at the nearer of two common
\* ancestors.
C5_WitnessNearer ==
    /\ call.fn = "find_relationship"
    /\ Acyclic(people)
    /\ Len(ret.value[1]) = 1
    /\ Cardinality(CommonAncestors(people, call.args[1], call.args[2])) >= 2
    /\ call.args[1] # call.args[2]

\* The empty relationship of the two unrelated parents of a child.
C5_WitnessUnrelated ==
    /\ call.fn = "find_relationship"
    /\ Acyclic(people)
    /\ ret.value[1] = <<>>
    /\ call.args[1] # call.args[2]
    /\ \E c \in DOMAIN people :
          {call.args[1], call.args[2]} \subseteq Range(people[c].parents)

\* C6: on an acyclic graph find_relationship(p1, p2) and
\* find_relationship(p2, p1) are about the same most recent common ancestors,
\* and the pair of each in one is the pair of the other with its components
\* swapped.
C6_RelationshipSymmetric ==
    (call.fn = "find_relationship" /\ Acyclic(people)) =>
        LET fwd == ret.value[1]
            bwd == ret.value[2]
        IN  /\ Len(fwd) = Len(bwd)
            /\ {PairMrca(fwd[i]) : i \in 1..Len(fwd)}
                 = {PairMrca(bwd[i]) : i \in 1..Len(bwd)}
            /\ \A i \in 1..Len(fwd) : \E j \in 1..Len(bwd) :
                  /\ PairMrca(bwd[j]) = PairMrca(fwd[i])
                  /\ bwd[j] = <<fwd[i][2], fwd[i][1]>>
                  /\ \A k \in 1..Len(bwd) : PairMrca(bwd[k]) = PairMrca(fwd[i]) => k = j

\* Two different persons with two most recent common ancestors, the two
\* calls visiting them in different orders, and pairs whose components differ.
C6_Witness ==
    /\ call.fn = "find_relationship"
    /\ Acyclic(people)
    /\ call.args[1] # call.args[2]
    /\ Len(ret.value[1]) = 2
    /\ Len(ret.value[2]) = 2
    /\ PairMrca(ret.value[1][1]) # PairMrca(ret.value[2][1])
    /\ ret.value[1][1][1] # ret.value[1][1][2]

\* Two different persons whose relationship has one pair, with different
\* components.
C6_WitnessOnePair ==
    /\ call.fn = "find_relationship"
    /\ Acyclic(people)
    /\ call.args[1] # call.args[2]
    /\ Len(ret.value[1]) = 1
    /\ ret.value[1][1][1] # ret.value[1][1][2]

\* C1: on an acyclic graph get_ancestor_lines(p) maps every ancestor-or-self a
\* of p to the list of the parent-paths from p to a: every path is in the
\* list, nothing else is, and no path is in it twice.
C1_LinesAreTheDistinctPaths ==
    (call.fn = "get_ancestor_lines" /\ ret.status = "ok" /\ Acyclic(people)) =>
        LET p == call.args[1]
        IN  /\ DOMAIN ret.value = AncestorsOrSelf(people, p)
            /\ \A a \in DOMAIN ret.value :
                  /\ Range(ret.value[a]) = Paths(people, p, a)
                  /\ NoRepeats(ret.value[a])

\* What the code does: the same, as long as no parents list names a person
\* twice; a repeated link repeats every line through it.
LinesAreThePathsWithoutRepeatedLinks ==
    (call.fn = "get_ancestor_lines" /\ ret.status = "ok" /\ Acyclic(people)) =>
        LET p == call.args[1]
        IN  /\ DOMAIN ret.value = AncestorsOrSelf(people, p)
            /\ \A a \in DOMAIN ret.value :
                  /\ Range(ret.value[a]) = Paths(people, p, a)
                  /\ (\A x \in DOMAIN people : NoRepeats(people[x].parents))
                        => NoRepeats(ret.value[a])

\* C2: a traversal started on or below a parent/child cycle ends, with an
\* error or a result, within a bounded number of steps: here, get_ancestor_lines
\* is no longer in its loop once it has made MaxIters iterations.
C2_CycleTraversalEnds ==
    (call.fn = "get_ancestor_lines" /\ ReachesCycle(people, call.args[1])) =>
        (iters >= MaxIters => ret.status # "running")

\* What the code does: below a cycle the deque is never empty, so the loop
\* has no exit, and the lines in it grow.
CycleNeverDrains ==
    (call.fn = "get_ancestor_lines" /\ ReachesCycle(people, call.args[1])) =>
        /\ todo # <<>>
        /\ ret.status = "running"

\* The other traversals below a cycle: get_ancestors ends only by the
\* interpreter's recursion limit, find_relationship does not return.
CycleOutcomes ==
    /\ (call.fn = "get_ancestors" /\ ReachesCycle(people, call.args[1]))
          => ret = Raise("RuntimeError")
    /\ (call.fn = "find_relationship"
          /\ (ReachesCycle(people, call.args[1]) \/ ReachesCycle(people, call.args[2])))
          => ret.status = "diverges"

=============================================================================
